---- MODULE Spec2Model ----
(***************************************************************************)
(* A model of vsapy/vsapy.py: the capacity function get_hd_threshold, the  *)
(* Real2Binary mapper, the cross-representation conversion to_vsa_type and *)
(* the generic facade (randvec, bind, unbind, cosine, cosine_sim, hsim,    *)
(* hdist, sum).                                                            *)
(*                                                                         *)
(* Floating point results that are dyadic rationals are kept exactly, as   *)
(* pairs <<numerator, denominator>>.  A call's outcome is a record          *)
(* [status, value, log]: status "ok" (returned value), "none" (returned    *)
(* None) or the name of the exception raised; log is the sequence of       *)
(* collaborator calls made before the outcome.                             *)
(***************************************************************************)
EXTENDS Integers, Sequences, FiniteSets, TLC

VARIABLES
    hd,        \* get_hd_threshold: the results observed so far, num_vecs -> hd
    rng,       \* the state of the process-wide generator np.random
    mappers,   \* the Real2Binary objects constructed so far
    zz,        \* the outcome of the last Real2Binary.to_bin call
    a, b,      \* two VSA vectors held by the caller
    cv,        \* the vector at the end of the caller's chain of conversions
    path,      \* the targets of the conversions applied to get from a to cv
    ret        \* the last facade / conversion call: its arguments and outcome

vars == <<hd, rng, mappers, zz, a, b, cv, path, ret>>

-----------------------------------------------------------------------------
(* Bounds *)

MaxVecs == 8        \* get_hd_threshold is called with num_vecs in 1..MaxVecs
MaxLen == 2         \* vectors have 1..MaxLen elements
MaxPath == 2        \* conversions chained from one source vector
MaxSeq == 2         \* vectors in the sequence handed to sum
MaxMappers == 2     \* Real2Binary objects alive at once
MaxDim == 2         \* rdim and bdim range over 1..MaxDim
MaxSeed == 2        \* seeds range over 0..MaxSeed
RngMod == 16        \* number of states of the modelled generator

-----------------------------------------------------------------------------
(* Helpers *)

RECURSIVE SumSeq(_)
SumSeq(s) == IF s = <<>> THEN 0 ELSE s[1] + SumSeq(Tail(s))

Min(x, y) == IF x <= y THEN x ELSE y

Pow2(n) == 2 ^ n

\* Exact comparison of two fractions with positive denominators.
FracEq(x, y) == x[1] * y[2] = y[1] * x[2]
FracLeq(x, y) == x[1] * y[2] <= y[1] * x[2]

-----------------------------------------------------------------------------
(* get_hd_threshold *)

\* scipy.special.comb(n, k): the binomial coefficient.
RECURSIVE comb(_, _)
comb(n, k) ==
    IF k < 0 \/ k > n THEN 0
    ELSE IF k = 0 THEN 1
    ELSE (comb(n, k - 1) * (n - k + 1)) \div k

\* for j in range(lo, hi): P = P + scm.comb(num_vecs, j)
RECURSIVE CumulativeSum(_, _, _)
CumulativeSum(num_vecs, lo, hi) ==
    IF lo >= hi THEN 0
    ELSE comb(num_vecs, lo) + CumulativeSum(num_vecs, lo + 1, hi)

\* A variant of get_hd_threshold with the decrement applied to even counts instead of odd ones.
get_hd_threshold_even_decrement(num_vecs) ==
    IF num_vecs = 1 THEN <<1, 1>>
    ELSE LET n == IF num_vecs % 2 = 0 THEN num_vecs - 1 ELSE num_vecs
             P == CumulativeSum(n, n \div 2, n + 1)
         IN  <<Pow2(n) - P, Pow2(n)>>

\* 1.0 is <<1, 1>>; 1.0 - P / 2 ** num_vecs is <<2^n - P, 2^n>>.
get_hd_threshold(num_vecs) ==
    IF num_vecs = 1 THEN <<1, 1>>
    ELSE LET n == IF num_vecs % 2 > 0 THEN num_vecs - 1 ELSE num_vecs
             P == CumulativeSum(n, n \div 2, n + 1)
         IN  <<Pow2(n) - P, Pow2(n)>>

\* A caller evaluates get_hd_threshold(num_vecs) and keeps the result.
GetHdThreshold(num_vecs) ==
    /\ hd' = [n \in DOMAIN hd \cup {num_vecs} |->
                 IF n = num_vecs THEN get_hd_threshold(num_vecs) ELSE hd[n]]
    /\ UNCHANGED <<rng, mappers, zz, a, b, cv, path, ret>>

-----------------------------------------------------------------------------
(* Real2Binary *)

\* np.random.seed(seed): the generator state is a function of the seed alone.
np_random_seed(seed) == seed % RngMod

\* One step of the generator and the bit it yields.
rng_next(s) == (5 * s + 3) % RngMod
rng_bit(s) == (s \div (RngMod \div 2)) % 2

\* The generator state after count draws.
RECURSIVE rng_after(_, _)
rng_after(s, count) == IF count = 0 THEN s ELSE rng_after(rng_next(s), count - 1)

\* np.random.randint(0, 2, size=(bdim, rdim)): filled row by row from the
\* generator's stream.
np_random_randint(s, bdim, rdim) ==
    [i \in 1..bdim |-> [j \in 1..rdim |->
        rng_bit(rng_after(s, (i - 1) * rdim + j))]]

\* Real2Binary.__init__: the new object's mapper and the generator state left.
Real2Binary_init(s, rdim, bdim, seed) ==
    LET s1 == IF seed # 0 THEN np_random_seed(seed) ELSE s
    IN  [rdim |-> rdim, bdim |-> bdim, seed |-> seed,
         mapper |-> np_random_randint(s1, bdim, rdim),
         rng |-> rng_after(s1, bdim * rdim)]

\* Real2Binary.to_bin for a v with a nonzero element: ZZ[i] >= 0 iff
\* sum(mapper[i] * v) - 0.5 * sum(v) >= 0, the divisor Var_V being positive.
to_bin(mapper, v) ==
    [i \in 1..Len(mapper) |->
        IF 2 * SumSeq([j \in 1..Len(v) |-> mapper[i][j] * v[j]]) - SumSeq(v) >= 0
        THEN 1 ELSE 0]

RealVals == {-1, 0, 2}

NewReal2Binary(rdim, bdim, seed) ==
    /\ Len(mappers) < MaxMappers
    /\ LET m == Real2Binary_init(rng, rdim, bdim, seed)
       IN  /\ mappers' = Append(mappers, [rdim |-> m.rdim, bdim |-> m.bdim,
                                          seed |-> m.seed, mapper |-> m.mapper])
           /\ rng' = m.rng
    /\ UNCHANGED <<hd, zz, a, b, cv, path, ret>>

\* to_bin on mapper i.  With v all zero Var_V is 0.0 and ZZ is nan before
\* the cast to uint8, whose result is not defined: any bits may come out.
ToBin(i, v) ==
    /\ i \in 1..Len(mappers)
    /\ Len(v) = mappers[i].rdim
    /\ IF \E j \in 1..Len(v) : v[j] # 0
       THEN zz' = [of |-> i, v |-> v, ZZ |-> to_bin(mappers[i].mapper, v)]
       ELSE \E bits \in [1..mappers[i].bdim -> {0, 1}] :
                zz' = [of |-> i, v |-> v, ZZ |-> bits]
    /\ UNCHANGED <<hd, rng, mappers, a, b, cv, path, ret>>

-----------------------------------------------------------------------------
(* VSA vectors and the collaborators in VsaBase and its subclasses *)

VsaTypes == {"BSC", "Tern", "TernZero", "HRR"}

\* Real elements of HRR vectors, scaled to integers.
HRRVals == {-1, 2}

\* The legal element values of each discriminant.
Domain(vsa_type) ==
    CASE vsa_type = "BSC" -> {0, 1}
      [] vsa_type = "Tern" -> {-1, 1}
      [] vsa_type = "TernZero" -> {-1, 0, 1}
      [] vsa_type = "HRR" -> HRRVals

\* VsaBase(v, vsa_type): the array v tagged with vsa_type.
VsaBase(v, vsa_type) == [vsa_type |-> vsa_type, v |-> v]

VecsOf(vsa_type) ==
    UNION {{VsaBase(v, vsa_type) : v \in [1..n -> Domain(vsa_type)]} : n \in 1..MaxLen}

AllVecs == UNION {VecsOf(t) : t \in VsaTypes}

NoVec == [vsa_type |-> "none", v |-> <<>>]

\* The outcome of a call.
Ok(value, log) == [status |-> "ok", value |-> value, log |-> log]
Raise(exc, log) == [status |-> exc, value |-> NoVec, log |-> log]
ReturnNone(log) == [status |-> "none", value |-> NoVec, log |-> log]

\* The attribute sv.vsatype read by to_vsa_type's first test: the
\* discriminant of sv.
vsatype(sv) == sv.vsa_type

\* v.reset_zeros_normalize(v): every zero becomes the random -1 or 1 that
\* fill holds at its position.
reset_zeros_normalize(v, fill) ==
    [v EXCEPT !.v = [i \in 1..Len(v.v) |-> IF v.v[i] = 0 THEN fill[i] ELSE v.v[i]]]

\* a.validate_operand(b): "True", or the exception raised.
validate_operand(x, y) ==
    IF x.vsa_type = y.vsa_type THEN "True" ELSE "OperandMismatch"

\* VsaBase.trunc_vecs_to_same_len(a, b)
trunc_vecs_to_same_len(x, y) ==
    LET k == Min(Len(x.v), Len(y.v))
    IN  <<[x EXCEPT !.v = SubSeq(x.v, 1, k)], [y EXCEPT !.v = SubSeq(y.v, 1, k)]>>

\* Circular convolution and circular correlation of two equal-length arrays.
CircConv(x, y) ==
    LET n == Len(x)
    IN  [k \in 1..n |-> SumSeq([j \in 1..n |-> x[j] * y[((k - j) % n) + 1]])]
CircCorr(x, y) ==
    LET n == Len(x)
    IN  [k \in 1..n |-> SumSeq([j \in 1..n |-> x[j] * y[((j + k - 2) % n) + 1]])]

\* a.bind(a1, b1), by the class of a
subclass_bind(x, y) ==
    CASE x.vsa_type = "BSC" ->
            VsaBase([i \in 1..Len(x.v) |-> (x.v[i] + y.v[i]) % 2], "BSC")
      [] x.vsa_type \in {"Tern", "TernZero"} ->
            VsaBase([i \in 1..Len(x.v) |-> x.v[i] * y.v[i]], x.vsa_type)
      [] x.vsa_type = "HRR" -> VsaBase(CircConv(x.v, y.v), "HRR")

\* a.unbind(a1, b1), by the class of a
subclass_unbind(x, y) ==
    CASE x.vsa_type = "BSC" ->
            VsaBase([i \in 1..Len(x.v) |-> (x.v[i] + y.v[i]) % 2], "BSC")
      [] x.vsa_type \in {"Tern", "TernZero"} ->
            VsaBase([i \in 1..Len(x.v) |-> x.v[i] * y.v[i]], x.vsa_type)
      [] x.vsa_type = "HRR" -> VsaBase(CircCorr(x.v, y.v), "HRR")

\* a.cosine_sim(a1, b1): dot / sqrt(norm2), kept as the pair of integers.
subclass_cosine_sim(x, y) ==
    [dot |-> SumSeq([i \in 1..Len(x.v) |-> x.v[i] * y.v[i]]),
     norm2 |-> SumSeq([i \in 1..Len(x.v) |-> x.v[i] * x.v[i]])
               * SumSeq([i \in 1..Len(y.v) |-> y.v[i] * y.v[i]])]

\* a.cosine(a1, b1): 1 - cosine_sim
subclass_cosine(x, y) == [one_minus |-> subclass_cosine_sim(x, y)]

\* a.hsim(a1, b1): the fraction of matching positions
subclass_hsim(x, y) ==
    <<Cardinality({i \in 1..Len(x.v) : x.v[i] = y.v[i]}), Len(x.v)>>

\* a.hdist(a1, b1): the fraction of mismatching positions
subclass_hdist(x, y) ==
    <<Cardinality({i \in 1..Len(x.v) : x.v[i] # y.v[i]}), Len(x.v)>>

\* The discriminants VsaBase.get_subclass finds a class for.
Registered == VsaTypes

-----------------------------------------------------------------------------
(* to_vsa_type *)

\* v[v == from] = to
Remap(v, from, to) == [i \in 1..Len(v) |-> IF v[i] = from THEN to ELSE v[i]]

\* v.astype('uint8') and v.astype('int8') on integer elements
AsUint8(v) == [i \in 1..Len(v) |-> v[i] % 256]
AsInt8(v) == [i \in 1..Len(v) |-> ((v[i] + 128) % 256) - 128]

\* The random values reset_zeros_normalize may draw for a vector sv.
Fills(sv) == [1..Len(sv.v) -> {-1, 1}]

\* A variant of to_vsa_type in which a Tern source with an unlisted target
\* is retagged, not refused.
to_vsa_type_tern_any_target(sv, vsa_type, fill) ==
    IF vsatype(sv) = vsa_type THEN Ok(sv, <<>>)
    ELSE IF sv.vsa_type = "TernZero" THEN
        LET v == reset_zeros_normalize([sv EXCEPT !.vsa_type = "Tern"], fill)
        IN  IF vsa_type = "Tern" THEN
                Ok(VsaBase(v.v, vsa_type), <<"reset_zeros_normalize">>)
            ELSE IF vsa_type = "BSC" THEN
                Ok(VsaBase(Remap(v.v, -1, 0), vsa_type), <<"reset_zeros_normalize">>)
            ELSE Raise("ValueError", <<"reset_zeros_normalize">>)
    ELSE IF sv.vsa_type = "Tern" THEN
        IF vsa_type = "BSC" THEN
            Ok(VsaBase(AsUint8(Remap(sv.v, -1, 0)), vsa_type), <<>>)
        ELSE Ok(VsaBase(sv.v, vsa_type), <<>>)
    ELSE IF sv.vsa_type = "BSC" /\ vsa_type \in {"Tern", "TernZero"} THEN
        Ok(VsaBase(Remap(AsInt8(sv.v), 0, -1), vsa_type), <<>>)
    ELSE Raise("ValueError", <<>>)

\* A variant of to_vsa_type in which BSC -> Tern casts to int8 and forgets
\* the 0 -> -1 remap.
to_vsa_type_no_back_remap(sv, vsa_type, fill) ==
    IF vsatype(sv) = vsa_type THEN Ok(sv, <<>>)
    ELSE IF sv.vsa_type = "TernZero" THEN
        LET v == reset_zeros_normalize([sv EXCEPT !.vsa_type = "Tern"], fill)
        IN  IF vsa_type = "Tern" THEN
                Ok(VsaBase(v.v, vsa_type), <<"reset_zeros_normalize">>)
            ELSE IF vsa_type = "BSC" THEN
                Ok(VsaBase(Remap(v.v, -1, 0), vsa_type), <<"reset_zeros_normalize">>)
            ELSE Raise("ValueError", <<"reset_zeros_normalize">>)
    ELSE IF sv.vsa_type = "Tern" THEN
        IF vsa_type = "TernZero" THEN Ok(VsaBase(sv.v, vsa_type), <<>>)
        ELSE IF vsa_type = "BSC" THEN
            Ok(VsaBase(AsUint8(Remap(sv.v, -1, 0)), vsa_type), <<>>)
        ELSE Raise("ValueError", <<>>)
    ELSE IF sv.vsa_type = "BSC" /\ vsa_type \in {"Tern", "TernZero"} THEN
        Ok(VsaBase(AsInt8(sv.v), vsa_type), <<>>)
    ELSE Raise("ValueError", <<>>)

\* A variant of to_vsa_type without the early return for an unchanged
\* discriminant.
to_vsa_type_no_early_return(sv, vsa_type, fill) ==
    IF sv.vsa_type = "TernZero" THEN
        LET v == reset_zeros_normalize([sv EXCEPT !.vsa_type = "Tern"], fill)
        IN  IF vsa_type = "Tern" THEN
                Ok(VsaBase(v.v, vsa_type), <<"reset_zeros_normalize">>)
            ELSE IF vsa_type = "BSC" THEN
                Ok(VsaBase(Remap(v.v, -1, 0), vsa_type), <<"reset_zeros_normalize">>)
            ELSE Raise("ValueError", <<"reset_zeros_normalize">>)
    ELSE IF sv.vsa_type = "Tern" THEN
        IF vsa_type = "TernZero" THEN Ok(VsaBase(sv.v, vsa_type), <<>>)
        ELSE IF vsa_type = "BSC" THEN
            Ok(VsaBase(AsUint8(Remap(sv.v, -1, 0)), vsa_type), <<>>)
        ELSE Raise("ValueError", <<>>)
    ELSE IF sv.vsa_type = "BSC" /\ vsa_type \in {"Tern", "TernZero"} THEN
        Ok(VsaBase(Remap(AsInt8(sv.v), 0, -1), vsa_type), <<>>)
    ELSE Raise("ValueError", <<>>)

\* to_vsa_type(sv, vsa_type); fill is what reset_zeros_normalize draws.
\* v = sv.copy() leaves sv as it is, so the branches read sv's elements.
to_vsa_type(sv, vsa_type, fill) ==
    IF vsatype(sv) = vsa_type THEN Ok(sv, <<>>)
    ELSE IF sv.vsa_type = "TernZero" THEN
        LET v == reset_zeros_normalize([sv EXCEPT !.vsa_type = "Tern"], fill)
        IN  IF vsa_type = "Tern" THEN
                Ok(VsaBase(v.v, vsa_type), <<"reset_zeros_normalize">>)
            ELSE IF vsa_type = "BSC" THEN
                Ok(VsaBase(Remap(v.v, -1, 0), vsa_type), <<"reset_zeros_normalize">>)
            ELSE Raise("ValueError", <<"reset_zeros_normalize">>)
    ELSE IF sv.vsa_type = "Tern" THEN
        IF vsa_type = "TernZero" THEN Ok(VsaBase(sv.v, vsa_type), <<>>)
        ELSE IF vsa_type = "BSC" THEN
            Ok(VsaBase(AsUint8(Remap(sv.v, -1, 0)), vsa_type), <<>>)
        ELSE Raise("ValueError", <<>>)
    ELSE IF sv.vsa_type = "BSC" /\ vsa_type \in {"Tern", "TernZero"} THEN
        Ok(VsaBase(Remap(AsInt8(sv.v), 0, -1), vsa_type), <<>>)
    ELSE Raise("ValueError", <<>>)

\* The caller converts the vector at the end of its chain once more.
ToVsaType(vsa_type, fill) ==
    /\ Len(path) < MaxPath
    /\ LET out == to_vsa_type(cv, vsa_type, fill)
       IN  /\ ret' = [op |-> "to_vsa_type", args |-> <<cv, vsa_type>>, out |-> out]
           /\ IF out.status = "ok"
              THEN cv' = out.value /\ path' = Append(path, vsa_type)
              ELSE UNCHANGED <<cv, path>>
    /\ UNCHANGED <<hd, rng, mappers, zz, a, b>>

-----------------------------------------------------------------------------
(* randvec *)

\* randvec(dims, word_size, vsa_type) for a one-dimensional dims; elems is
\* what the subclass generator draws.
randvec(dims, vsa_type, elems) ==
    IF vsa_type \in Registered THEN Ok(VsaBase(elems, vsa_type), <<"randvec">>)
    ELSE Raise("ValueError", <<>>)

\* The caller draws a new source vector and starts a new chain from it.
Randvec(dims, vsa_type) ==
    \E elems \in [1..dims -> IF vsa_type \in VsaTypes THEN Domain(vsa_type) ELSE {0}] :
        LET out == randvec(dims, vsa_type, elems)
        IN  /\ ret' = [op |-> "randvec", args |-> <<dims, vsa_type>>, out |-> out]
            /\ IF out.status = "ok"
               THEN a' = out.value /\ cv' = out.value /\ path' = <<>>
               ELSE UNCHANGED <<a, cv, path>>
            /\ UNCHANGED <<hd, rng, mappers, zz, b>>

-----------------------------------------------------------------------------
(* The binary facade operations *)

\* A variant of bind without the operand validation.
bind_unvalidated(x, y) ==
    LET t == trunc_vecs_to_same_len(x, y)
    IN  Ok(subclass_bind(t[1], t[2]), <<"trunc_vecs_to_same_len", "bind">>)

\* A variant of bind without the truncation.  numpy stretches a one-element
\* array over the other operand and refuses any other pair of lengths.
bind_untruncated(x, y) ==
    IF validate_operand(x, y) = "True" THEN
        IF Len(x.v) = Len(y.v) THEN
            Ok(subclass_bind(x, y), <<"validate_operand", "bind">>)
        ELSE IF Min(Len(x.v), Len(y.v)) = 1 THEN
            LET n == IF Len(x.v) = 1 THEN Len(y.v) ELSE Len(x.v)
                x1 == [x EXCEPT !.v = [i \in 1..n |-> x.v[IF Len(x.v) = 1 THEN 1 ELSE i]]]
                y1 == [y EXCEPT !.v = [i \in 1..n |-> y.v[IF Len(y.v) = 1 THEN 1 ELSE i]]]
            IN  Ok(subclass_bind(x1, y1), <<"validate_operand", "bind">>)
        ELSE Raise("ValueError", <<"validate_operand", "bind">>)
    ELSE IF validate_operand(x, y) = "False" THEN ReturnNone(<<"validate_operand">>)
    ELSE Raise(validate_operand(x, y), <<"validate_operand">>)

bind(x, y) ==
    IF validate_operand(x, y) = "True" THEN
        LET t == trunc_vecs_to_same_len(x, y)
        IN  Ok(subclass_bind(t[1], t[2]),
               <<"validate_operand", "trunc_vecs_to_same_len", "bind">>)
    ELSE IF validate_operand(x, y) = "False" THEN ReturnNone(<<"validate_operand">>)
    ELSE Raise(validate_operand(x, y), <<"validate_operand">>)

unbind(x, y) ==
    IF validate_operand(x, y) = "True" THEN
        LET t == trunc_vecs_to_same_len(x, y)
        IN  Ok(subclass_unbind(t[1], t[2]),
               <<"validate_operand", "trunc_vecs_to_same_len", "unbind">>)
    ELSE IF validate_operand(x, y) = "False" THEN ReturnNone(<<"validate_operand">>)
    ELSE Raise(validate_operand(x, y), <<"validate_operand">>)

cosine(x, y) ==
    IF validate_operand(x, y) = "True" THEN
        LET t == trunc_vecs_to_same_len(x, y)
        IN  Ok(subclass_cosine(t[1], t[2]),
               <<"validate_operand", "trunc_vecs_to_same_len", "cosine">>)
    ELSE IF validate_operand(x, y) = "False" THEN ReturnNone(<<"validate_operand">>)
    ELSE Raise(validate_operand(x, y), <<"validate_operand">>)

cosine_sim(x, y) ==
    IF validate_operand(x, y) = "True" THEN
        LET t == trunc_vecs_to_same_len(x, y)
        IN  Ok(subclass_cosine_sim(t[1], t[2]),
               <<"validate_operand", "trunc_vecs_to_same_len", "cosine_sim">>)
    ELSE IF validate_operand(x, y) = "False" THEN ReturnNone(<<"validate_operand">>)
    ELSE Raise(validate_operand(x, y), <<"validate_operand">>)

hsim(x, y) ==
    IF validate_operand(x, y) = "True" THEN
        LET t == trunc_vecs_to_same_len(x, y)
        IN  Ok(subclass_hsim(t[1], t[2]),
               <<"validate_operand", "trunc_vecs_to_same_len", "hsim">>)
    ELSE IF validate_operand(x, y) = "False" THEN ReturnNone(<<"validate_operand">>)
    ELSE Raise(validate_operand(x, y), <<"validate_operand">>)

hdist(x, y) ==
    IF validate_operand(x, y) = "True" THEN
        LET t == trunc_vecs_to_same_len(x, y)
        IN  Ok(subclass_hdist(t[1], t[2]),
               <<"validate_operand", "trunc_vecs_to_same_len", "hdist">>)
    ELSE IF validate_operand(x, y) = "False" THEN ReturnNone(<<"validate_operand">>)
    ELSE Raise(validate_operand(x, y), <<"validate_operand">>)

Bind == /\ ret' = [op |-> "bind", args |-> <<a, b>>, out |-> bind(a, b)]
        /\ UNCHANGED <<hd, rng, mappers, zz, a, b, cv, path>>

Unbind == /\ ret' = [op |-> "unbind", args |-> <<a, b>>, out |-> unbind(a, b)]
          /\ UNCHANGED <<hd, rng, mappers, zz, a, b, cv, path>>

Cosine == /\ ret' = [op |-> "cosine", args |-> <<a, b>>, out |-> cosine(a, b)]
          /\ UNCHANGED <<hd, rng, mappers, zz, a, b, cv, path>>

CosineSim == /\ ret' = [op |-> "cosine_sim", args |-> <<a, b>>, out |-> cosine_sim(a, b)]
             /\ UNCHANGED <<hd, rng, mappers, zz, a, b, cv, path>>

Hsim == /\ ret' = [op |-> "hsim", args |-> <<a, b>>, out |-> hsim(a, b)]
        /\ UNCHANGED <<hd, rng, mappers, zz, a, b, cv, path>>

Hdist == /\ ret' = [op |-> "hdist", args |-> <<a, b>>, out |-> hdist(a, b)]
         /\ UNCHANGED <<hd, rng, mappers, zz, a, b, cv, path>>

-----------------------------------------------------------------------------
(* sum *)

\* np.sum(ndarray, axis=0) over a sequence of equal-length arrays; 0.0, kept
\* as the empty array, for the empty sequence.
np_sum(ndarray) ==
    IF ndarray = <<>> THEN <<>>
    ELSE [i \in 1..Len(ndarray[1].v) |->
             SumSeq([k \in 1..Len(ndarray) |-> ndarray[k].v[i]])]

\* A variant of sum whose result carries the tag of the last vector, not
\* the first.
sum_tag_of_last(ndarray) ==
    IF ndarray = <<>> THEN Raise("IndexError", <<"np.sum">>)
    ELSE Ok(VsaBase(np_sum(ndarray), ndarray[Len(ndarray)].vsa_type), <<"np.sum">>)

\* sum(ndarray, axis=0): np.sum is evaluated first, then ndarray[0].
sum(ndarray) ==
    IF ndarray = <<>> THEN Raise("IndexError", <<"np.sum">>)
    ELSE Ok(VsaBase(np_sum(ndarray), ndarray[1].vsa_type), <<"np.sum">>)

\* The sequences of at most MaxSeq of the caller's vectors that np.sum can
\* stack: their arrays have one length.
Stackable ==
    {s \in UNION {[1..n -> {a, b}] : n \in 0..MaxSeq} :
        \A i, j \in 1..Len(s) : Len(s[i].v) = Len(s[j].v)}

Sum(ndarray) ==
    /\ ret' = [op |-> "sum", args |-> ndarray, out |-> sum(ndarray)]
    /\ UNCHANGED <<hd, rng, mappers, zz, a, b, cv, path>>

-----------------------------------------------------------------------------
(* Specifications *)

NoCall == [op |-> "none", args |-> <<>>, out |-> ReturnNone(<<>>)]
NoZZ == [of |-> 0, v |-> <<>>, ZZ |-> <<>>]

HdIdle == hd = <<>>
R2BIdle == rng = 0 /\ mappers = <<>> /\ zz = NoZZ
VsaIdle == a = NoVec /\ b = NoVec /\ cv = NoVec /\ path = <<>> /\ ret = NoCall

\* get_hd_threshold: no result observed yet.
InitHd == HdIdle /\ R2BIdle /\ VsaIdle
NextHd == \E num_vecs \in 1..MaxVecs : GetHdThreshold(num_vecs)
SpecHd == InitHd /\ [][NextHd]_vars

\* Real2Binary: no mapper yet; the process-wide generator is in any state.
InitR2B ==
    /\ HdIdle /\ VsaIdle
    /\ rng \in 0..(RngMod - 1) /\ mappers = <<>> /\ zz = NoZZ
NextR2B ==
    \/ \E rdim \in 1..MaxDim, bdim \in 1..MaxDim, seed \in 0..MaxSeed :
           NewReal2Binary(rdim, bdim, seed)
    \/ \E i \in 1..MaxMappers, v \in UNION {[1..n -> RealVals] : n \in 1..MaxDim} :
           ToBin(i, v)
SpecR2B == InitR2B /\ [][NextR2B]_vars

\* Conversion: the caller holds one legal vector and converts it in a chain.
InitConv ==
    /\ HdIdle /\ R2BIdle
    /\ a \in AllVecs /\ b = NoVec /\ cv = a /\ path = <<>> /\ ret = NoCall
NextConv ==
    \/ \E vsa_type \in VsaTypes, fill \in Fills(cv) : ToVsaType(vsa_type, fill)
    \/ \E dims \in 1..MaxLen, vsa_type \in VsaTypes \cup {"Unregistered"} :
           Randvec(dims, vsa_type)
SpecConv == InitConv /\ [][NextConv]_vars

\* Facade: the caller holds two legal vectors and applies the operations.
InitFacade ==
    /\ HdIdle /\ R2BIdle
    /\ a \in AllVecs /\ b \in AllVecs /\ cv = a /\ path = <<>> /\ ret = NoCall
NextFacade ==
    \/ Bind \/ Unbind \/ Cosine \/ CosineSim \/ Hsim \/ Hdist
    \/ \E ndarray \in Stackable : Sum(ndarray)
SpecFacade == InitFacade /\ [][NextFacade]_vars

-----------------------------------------------------------------------------
(* Properties of get_hd_threshold, checked under SpecHd *)

IsEven(n) == n % 2 = 0

\* C1: get_hd_threshold(1) is 0, an exact match.
HdOfOneIsZero == 1 \in DOMAIN hd => FracEq(hd[1], <<0, 1>>)

\* C2, as stated: for every even N >= 2, get_hd_threshold(N) equals
\* get_hd_threshold(N - 1).
HdEvenEqualsPrevious ==
    \A n \in DOMAIN hd :
        (IsEven(n) /\ n >= 2 /\ n - 1 \in DOMAIN hd) => FracEq(hd[n], hd[n - 1])

\* C2, amended: for every even N >= 2, get_hd_threshold(N) equals
\* get_hd_threshold(N + 1): it is the odd count that is reduced by one.
HdEvenEqualsNext ==
    \A n \in DOMAIN hd :
        (IsEven(n) /\ n >= 2 /\ n + 1 \in DOMAIN hd) => FracEq(hd[n], hd[n + 1])

\* Both get_hd_threshold(4) and get_hd_threshold(5) were computed, as 5/16.
HdEvenNextWitness ==
    /\ {4, 5} \subseteq DOMAIN hd
    /\ hd[4] = <<5, 16>>
    /\ hd[5] = <<5, 16>>

\* C3: get_hd_threshold is non-decreasing: M <= N implies
\* get_hd_threshold(M) <= get_hd_threshold(N).
HdNonDecreasing ==
    \A m, n \in DOMAIN hd : m <= n => FracLeq(hd[m], hd[n])

-----------------------------------------------------------------------------
(* Properties of the facade, checked under SpecFacade *)

BinaryOps == {"bind", "unbind", "cosine", "cosine_sim", "hsim", "hdist"}

Prefix(x, k) == [x EXCEPT !.v = SubSeq(x.v, 1, k)]

\* C4: a binary facade operation on operands of different discriminants
\* raises the operand-mismatch error, having called nothing but the
\* validation: no truncation, no delegated computation, no returned value.
MismatchRejectedFirst ==
    (ret.op \in BinaryOps /\ ret.args[1].vsa_type # ret.args[2].vsa_type)
        => /\ ret.out.status = "OperandMismatch"
           /\ ret.out.log = <<"validate_operand">>

\* hdist was refused so on a BSC and a Tern operand.
MismatchWitness ==
    /\ ret.op = "hdist"
    /\ ret.args[1].vsa_type = "BSC"
    /\ ret.args[2].vsa_type = "Tern"
    /\ ret.out.status = "OperandMismatch"

\* C5: bind(a, b) on operands of one discriminant and lengths m, n returns a
\* vector of length min(m, n), equal to bind of the first min(m, n) elements
\* of a and of b; no error is raised when m # n.
BindTruncates ==
    (ret.op = "bind" /\ ret.args[1].vsa_type = ret.args[2].vsa_type)
        => LET x == ret.args[1]
               y == ret.args[2]
               k == Min(Len(x.v), Len(y.v))
           IN  /\ ret.out.status = "ok"
               /\ Len(ret.out.value.v) = k
               /\ ret.out.value.vsa_type = x.vsa_type
               /\ ret.out.value = bind(Prefix(x, k), Prefix(y, k)).value

\* bind returned for a longer first operand and a shorter second one.
BindTruncatesWitness ==
    /\ ret.op = "bind"
    /\ ret.args[1].vsa_type = ret.args[2].vsa_type
    /\ Len(ret.args[1].v) > Len(ret.args[2].v)
    /\ ret.out.status = "ok"
    /\ Len(ret.out.value.v) = Len(ret.args[2].v)

SameDiscriminant(ndarray) ==
    \A i, j \in 1..Len(ndarray) : ndarray[i].vsa_type = ndarray[j].vsa_type

ElementwiseSum(ndarray, v) ==
    /\ Len(v) = Len(ndarray[1].v)
    /\ \A i \in 1..Len(v) : v[i] = SumSeq([k \in 1..Len(ndarray) |-> ndarray[k].v[i]])

\* C6, as stated: sum over a non-empty sequence of one discriminant returns
\* the element-wise sum tagged with it; sum over an empty sequence or over
\* mixed discriminants raises an error.
SumRejectsEmptyAndMixed ==
    ret.op = "sum"
        => IF ret.args # <<>> /\ SameDiscriminant(ret.args)
           THEN /\ ret.out.status = "ok"
                /\ ret.out.value.vsa_type = ret.args[1].vsa_type
                /\ ElementwiseSum(ret.args, ret.out.value.v)
           ELSE ret.out.status \notin {"ok", "none"}

\* C6, amended: sum over a non-empty sequence returns the element-wise sum
\* tagged with the discriminant of the first vector, which is the common
\* one when all share it (mixed discriminants are not refused); sum over an
\* empty sequence raises an error.
SumTagsWithFirst ==
    ret.op = "sum"
        => IF ret.args # <<>>
           THEN /\ ret.out.status = "ok"
                /\ ret.out.value.vsa_type = ret.args[1].vsa_type
                /\ ElementwiseSum(ret.args, ret.out.value.v)
           ELSE ret.out.status \notin {"ok", "none"}

\* sum returned for two vectors of different discriminants.
SumMixedWitness ==
    /\ ret.op = "sum"
    /\ Len(ret.args) = 2
    /\ ret.args[1].vsa_type = "Tern"
    /\ ret.args[2].vsa_type = "BSC"
    /\ ret.out.status = "ok"
    /\ ret.out.value.vsa_type = "Tern"

-----------------------------------------------------------------------------
(* Properties of to_vsa_type, checked under SpecConv *)

Supported ==
    {<<"TernZero", "Tern">>, <<"TernZero", "BSC">>, <<"Tern", "TernZero">>,
     <<"Tern", "BSC">>, <<"BSC", "Tern">>, <<"BSC", "TernZero">>}

\* C7: to_vsa_type with source # target returns a vector tagged with target
\* for the six supported pairs and raises for every other pair.
ConversionTable ==
    (ret.op = "to_vsa_type" /\ ret.args[1].vsa_type # ret.args[2])
        => IF <<ret.args[1].vsa_type, ret.args[2]>> \in Supported
           THEN ret.out.status = "ok" /\ ret.out.value.vsa_type = ret.args[2]
           ELSE ret.out.status = "ValueError"

\* A Tern vector was refused conversion to HRR.
ConversionRefusedWitness ==
    /\ ret.op = "to_vsa_type"
    /\ ret.args[1].vsa_type = "Tern"
    /\ ret.args[2] = "HRR"
    /\ ret.out.status = "ValueError"

\* C8: a Tern vector converted to BSC and back to Tern is a Tern vector with
\* the same elements, position by position.
TernRoundTrip ==
    (a.vsa_type = "Tern" /\ path = <<"BSC", "Tern">>)
        => /\ cv.vsa_type = "Tern"
           /\ Len(cv.v) = Len(a.v)
           /\ \A i \in 1..Len(a.v) : cv.v[i] = a.v[i]

\* A Tern vector holding both -1 and 1 went to BSC and back.
TernRoundTripWitness ==
    /\ a.vsa_type = "Tern"
    /\ path = <<"BSC", "Tern">>
    /\ \E i, j \in 1..Len(a.v) : a.v[i] = -1 /\ a.v[j] = 1

\* C9: to_vsa_type(v, d) with d the discriminant of v returns v, elements
\* and discriminant unchanged, without error and without the random
\* replacement of zeros.
SameTypeIsIdentity ==
    (ret.op = "to_vsa_type" /\ ret.args[1].vsa_type = ret.args[2])
        => /\ ret.out.status = "ok"
           /\ ret.out.value = ret.args[1]
           /\ ret.out.log = <<>>

\* A TernZero vector holding a zero was converted to TernZero.
SameTypeWitness ==
    /\ ret.op = "to_vsa_type"
    /\ ret.args[1].vsa_type = "TernZero"
    /\ ret.args[2] = "TernZero"
    /\ \E i \in 1..Len(ret.args[1].v) : ret.args[1].v[i] = 0
    /\ ret.out.status = "ok"

-----------------------------------------------------------------------------
(* Properties of Real2Binary, checked under SpecR2B *)

\* C10: two mappers constructed with the same (rdim, bdim, seed) hold the
\* same matrix, for every seed, 0 included, whatever the generator state
\* was before each construction.
MapperDeterminedBySeed ==
    \A i, j \in 1..Len(mappers) :
        (/\ mappers[i].rdim = mappers[j].rdim
         /\ mappers[i].bdim = mappers[j].bdim
         /\ mappers[i].seed = mappers[j].seed)
            => mappers[i].mapper = mappers[j].mapper

====
